---- MODULE Spec2Model ----
(***************************************************************************)
(* Model of generate_293t_schedule, build_ics and the handlers of          *)
(* MainWindow (src/lab_293t_scheduler_app.py).  Spec is one call of        *)
(* generate_293t_schedule, FairSpec the same call run to completion,       *)
(* GuiSpec the window with its preview and export buttons.                 *)
(*                                                                         *)
(* Time: a pd.Timestamp is an integer number of hours; instant 0 is        *)
(* Sunday 2026-01-04 00:00, so day number d = instant \div 24 and day 0,   *)
(* 7, 14, ... are Sundays.  An Optional value is <<>> (None) or <<v>>.     *)
(* A person name is the pair <<group letter, position>>.                   *)
(***************************************************************************)
EXTENDS Integers, Sequences, FiniteSets, TLC

\* ---- bounds of the explored inputs -------------------------------------
MaxGroup == 2
MaxSkipOff == 2
MaxSpan == 6
MaxEvents == 5

\* ---- values -------------------------------------------------------------
None == <<>>

Some(v) == <<v>>

Val(o) == o[1]

Range(s) == {s[i] : i \in DOMAIN s}

PASSAGE_CYCLE ==
  <<"P25, Thaw P11", "P12", "P13", "P14", "P15", "P16", "P17", "P18",
    "P19", "P20", "P21", "P22", "P23", "P24">>

\* list.index: position (from 0) of the first occurrence
IndexOf(seq, x) == (CHOOSE i \in DOMAIN seq : seq[i] = x /\ \A j \in 1..(i - 1) : seq[j] # x) - 1

hours(d) == d * 24

\* Timestamp.normalize(): drop the time of day
normalize(ts) == (ts \div 24) * 24

\* Timestamp.date(): the calendar day
date(ts) == ts \div 24

\* Timestamp.weekday(): Monday = 0 ... Sunday = 6
weekday(ts) == (date(ts) + 6) % 7

DayNames == <<"Monday", "Tuesday", "Wednesday", "Thursday", "Friday", "Saturday", "Sunday">>

\* Timestamp.strftime("%A")
strftimeA(ts) == DayNames[weekday(ts) + 1]

\* variant: only Sunday counts as weekend
is_weekend_sunonly(ts) == weekday(ts) > 5

is_weekend(ts) == weekday(ts) >= 5

is_sunday(ts) == weekday(ts) = 6

is_saturday(ts) == weekday(ts) = 5

\* variant: the days since Sunday are not subtracted
week_start_sunday_sameday(ts) == normalize(ts)

\* variant: the week is counted from Monday
week_start_sunday_monday(ts) ==
  LET days_since_mon == weekday(ts)
  IN normalize(ts - hours(days_since_mon))

week_start_sunday(ts) ==
  LET days_since_sun == (weekday(ts) + 1) % 7
  IN normalize(ts - hours(days_since_sun))

\* ---- the inputs ----------------------------------------------------------
Group(g, n) == [i \in 1..n |-> <<g, i>>]

RoleTags == {"weekday", "weekend", "weekdayish"}

Labels == Range(PASSAGE_CYCLE) \cup {"P999"}

MainLabels == {PASSAGE_CYCLE[1], PASSAGE_CYCLE[14]}

Intervals == {12, 24, 48}

BoundChoices(start) ==
  {[end_date |-> Some(start + hours(o)), num_events |-> None] : o \in (-1)..MaxSpan}
  \cup {[end_date |-> None, num_events |-> Some(n)] : n \in 0..MaxEvents}

\* the four ways of giving or omitting end_date and num_events
BoundPresence ==
  {[end_date |-> e, num_events |-> n] : e \in {None, Some(hours(4))}, n \in {None, Some(3)}}

StartRoleChoices == {<<"weekday", "weekend">>, <<"weekend", "weekday">>}

\* configurations that exercise the entry checks
ValidationParams(p) ==
  \E na \in 0..MaxGroup, nb \in 0..MaxGroup, b \in BoundPresence,
     r0 \in RoleTags, r1 \in RoleTags, l \in Labels :
    p = [group_a |-> Group("A", na), group_b |-> Group("B", nb),
         start_date |-> 0, end_date |-> b.end_date, num_events |-> b.num_events,
         start_roles |-> <<r0, r1>>, interval_hours |-> 48, skip_dates |-> {},
         start_passage_label |-> l]

\* configurations that pass the entry checks and exercise the loop
RunParams(p) ==
  \E na \in 1..MaxGroup, nb \in 1..MaxGroup, sd \in 0..6, iv \in Intervals,
     offs \in SUBSET (0..MaxSkipOff), r \in StartRoleChoices, l \in MainLabels :
    \E b \in BoundChoices(hours(sd)) :
      p = [group_a |-> Group("A", na), group_b |-> Group("B", nb),
           start_date |-> hours(sd), end_date |-> b.end_date, num_events |-> b.num_events,
           start_roles |-> r, interval_hours |-> iv,
           skip_dates |-> {hours(sd + o) : o \in offs},
           start_passage_label |-> l]

\* the configuration of test_role_flip_only_after_both_groups_wrap
FlipTestParams ==
  [group_a |-> Group("A", 1), group_b |-> Group("B", 1),
   start_date |-> 0, end_date |-> None, num_events |-> Some(10),
   start_roles |-> <<"weekday", "weekend">>, interval_hours |-> 48, skip_dates |-> {},
   start_passage_label |-> PASSAGE_CYCLE[1]]

\* ---- errors --------------------------------------------------------------
NoError == [kind |-> "", msg |-> "", arg |-> ""]

Err(k, m, a) == [kind |-> k, msg |-> m, arg |-> a]

\* variant: only the absence of both bounds is rejected
CheckBound_neither(p) ==
  IF p.end_date = None /\ p.num_events = None
  THEN Err("AssertionError", "Provide either end_date or num_events, not both.", "")
  ELSE NoError

\* line 51: assert (end_date is None) ^ (num_events is None)
CheckBound(p) ==
  IF (p.end_date = None) # (p.num_events = None)
  THEN NoError
  ELSE Err("AssertionError", "Provide either end_date or num_events, not both.", "")

\* variant: the two group checks in the opposite order
CheckGroups_bfirst(p) ==
  IF p.group_b = <<>> THEN Err("ValueError", "Group B is empty.", "")
  ELSE IF p.group_a = <<>> THEN Err("ValueError", "Group A is empty.", "")
  ELSE NoError

\* lines 52-55
CheckGroups(p) ==
  IF p.group_a = <<>> THEN Err("ValueError", "Group A is empty.", "")
  ELSE IF p.group_b = <<>> THEN Err("ValueError", "Group B is empty.", "")
  ELSE NoError

\* variant: equal roles are not rejected
CheckRoles_nosame(p) ==
  IF p.start_roles[1] \notin {"weekday", "weekend"} \/ p.start_roles[2] \notin {"weekday", "weekend"}
  THEN Err("ValueError", "start_roles must be ('weekday'|'weekend', 'weekday'|'weekend')", "")
  ELSE NoError

\* lines 57-60
CheckRoles(p) ==
  IF p.start_roles[1] \notin {"weekday", "weekend"} \/ p.start_roles[2] \notin {"weekday", "weekend"}
  THEN Err("ValueError", "start_roles must be ('weekday'|'weekend', 'weekday'|'weekend')", "")
  ELSE IF p.start_roles[1] = p.start_roles[2]
  THEN Err("ValueError", "Groups cannot start with the same role.", "")
  ELSE NoError

\* variant: the message does not interpolate the label
CheckLabel_unnamed(p) ==
  IF p.start_passage_label \notin Range(PASSAGE_CYCLE)
  THEN Err("ValueError", "Unknown start passage", "")
  ELSE NoError

\* lines 76-77: the message names the label
CheckLabel(p) ==
  IF p.start_passage_label \notin Range(PASSAGE_CYCLE)
  THEN Err("ValueError", "Unknown start passage", p.start_passage_label)
  ELSE NoError

\* variant: the role checks are left out
ValidationError_noroles(p) ==
  IF CheckBound(p) # NoError THEN CheckBound(p)
  ELSE IF CheckGroups(p) # NoError THEN CheckGroups(p)
  ELSE CheckLabel(p)

\* lines 51-77: the first failing check, in source order
ValidationError(p) ==
  IF CheckBound(p) # NoError THEN CheckBound(p)
  ELSE IF CheckGroups(p) # NoError THEN CheckGroups(p)
  ELSE IF CheckRoles(p) # NoError THEN CheckRoles(p)
  ELSE CheckLabel(p)

\* ---- the closures of generate_293t_schedule ------------------------------
\* variant: the person is read after the cursor has moved
next_person_after(group, idx) ==
  LET idx1 == idx + 1
      wrapped == idx1 >= Len(group)
      idx2 == IF wrapped THEN 0 ELSE idx1
  IN [person |-> group[idx2 + 1], idx |-> idx2, wrapped |-> wrapped]

\* variant: the cursor is reset but the wrap is not reported
next_person_silent(group, idx) ==
  LET idx1 == idx + 1
  IN [person |-> group[idx + 1], idx |-> IF idx1 >= Len(group) THEN 0 ELSE idx1, wrapped |-> FALSE]

\* variant: the cursor wraps one member early
next_person_early(group, idx) ==
  LET idx1 == idx + 1
      wrapped == idx1 >= Len(group) - 1
  IN [person |-> group[idx + 1], idx |-> IF wrapped THEN 0 ELSE idx1, wrapped |-> wrapped]

\* variant: the cursor never advances
next_person_stay(group, idx) ==
  [person |-> group[idx + 1], idx |-> idx, wrapped |-> FALSE]

next_person(group, idx) ==
  LET idx1 == idx + 1
      wrapped == idx1 >= Len(group)
  IN [person |-> group[idx + 1], idx |-> IF wrapped THEN 0 ELSE idx1, wrapped |-> wrapped]

\* variant: the weekday owner is read the wrong way round
weekday_group_flag_inverted(a_weekday_flag) == IF a_weekday_flag THEN "B" ELSE "A"

weekday_group_flag(a_weekday_flag) == IF a_weekday_flag THEN "A" ELSE "B"

\* variant: the weekend owner is the weekday owner
weekend_group_flag_same(a_weekday_flag) == IF a_weekday_flag THEN "A" ELSE "B"

weekend_group_flag(a_weekday_flag) == IF a_weekday_flag THEN "B" ELSE "A"

\* variant: one wrapped group is enough to flip
maybe_flip_roles_either(s) ==
  IF s.a_wrapped_since_flip \/ s.b_wrapped_since_flip
  THEN [s EXCEPT !.a_handles_weekday = ~@,
                 !.a_wrapped_since_flip = FALSE,
                 !.b_wrapped_since_flip = FALSE]
  ELSE s

\* variant: the roles flip but the wrap flags stay set
maybe_flip_roles_keepflags(s) ==
  IF s.a_wrapped_since_flip /\ s.b_wrapped_since_flip
  THEN [s EXCEPT !.a_handles_weekday = ~@]
  ELSE s

\* s: the nonlocal variables [idx_a, idx_b, a_handles_weekday, a_wrapped_since_flip, b_wrapped_since_flip]
maybe_flip_roles(s) ==
  IF s.a_wrapped_since_flip /\ s.b_wrapped_since_flip
  THEN [s EXCEPT !.a_handles_weekday = ~@,
                 !.a_wrapped_since_flip = FALSE,
                 !.b_wrapped_since_flip = FALSE]
  ELSE s

consume_from(p, group_flag, s) ==
  IF group_flag = "A"
  THEN LET np == next_person(p.group_a, s.idx_a)
           s1 == [s EXCEPT !.idx_a = np.idx]
           s2 == IF np.wrapped
                 THEN maybe_flip_roles([s1 EXCEPT !.a_wrapped_since_flip = TRUE])
                 ELSE s1
       IN [s |-> s2, person |-> np.person, gname |-> "Group A", wrapped |-> np.wrapped]
  ELSE LET np == next_person(p.group_b, s.idx_b)
           s1 == [s EXCEPT !.idx_b = np.idx]
           s2 == IF np.wrapped
                 THEN maybe_flip_roles([s1 EXCEPT !.b_wrapped_since_flip = TRUE])
                 ELSE s1
       IN [s |-> s2, person |-> np.person, gname |-> "Group B", wrapped |-> np.wrapped]

\* variant: Saturday falls into the weekday bucket
SlotOf_nosat(ts) == IF is_sunday(ts) THEN "sunday" ELSE "weekday"

\* the bucket of a candidate day (lines 150, 156, 162)
SlotOf(ts) == IF is_sunday(ts) THEN "sunday" ELSE IF is_saturday(ts) THEN "saturday" ELSE "weekday"

\* the group that owns a bucket (lines 152, 158, 164)
SlotGroupFlag(slot, a_weekday_flag) ==
  IF slot = "weekday" THEN weekday_group_flag(a_weekday_flag) ELSE weekend_group_flag(a_weekday_flag)

EmptyWeek == [sunday |-> None, weekday |-> None, saturday |-> None]

\* variant: the event bound is tested with >= instead of >
continue_loop_inclusive(p, cur, end, ev) ==
  IF p.end_date # None THEN cur <= end ELSE ev >= 0

\* lines 109-116
continue_loop(p, cur, end, ev) ==
  IF p.end_date # None THEN cur <= end ELSE ev > 0

\* variant: the cycle wraps one entry early
NextPassageIdx_short(i) == (i + 1) % (Len(PASSAGE_CYCLE) - 1)

\* line 170
NextPassageIdx(i) == (i + 1) % Len(PASSAGE_CYCLE)

\* line 126: membership of a Timestamp in the set of normalized skip Timestamps
InSkip(cur, skipset) == cur \in skipset

\* ---- ICS and CSV text ---------------------------------------------------------
\* a line of the calendar file: its property name and its value
Line(t, v) == [tag |-> t, val |-> v]

\* lines 203-208: minutes since instant 0 of the event's start and end
EventStart(row, event_hour) == row.Date * 1440 + event_hour * 60

EventEnd(row, event_hour, duration_minutes) == EventStart(row, event_hour) + duration_minutes

\* lines 203-220: the seven lines of one record (model names hold no space to strip)
VEvent(row, event_hour, duration_minutes) ==
  <<Line("BEGIN:VEVENT", <<>>),
    Line("UID", <<row.Date, row.Person>>),
    Line("DTSTART", <<EventStart(row, event_hour)>>),
    Line("DTEND", <<EventEnd(row, event_hour, duration_minutes)>>),
    Line("SUMMARY", <<row.Person, row.AssignedGroup>>),
    Line("DESCRIPTION", <<row.IsWeekend>>),
    Line("END:VEVENT", <<>>)>>

IcsHeader ==
  <<Line("BEGIN:VCALENDAR", <<>>), Line("VERSION", <<"2.0">>),
    Line("PRODID", <<"-//293T Scheduler//EN">>), Line("CALSCALE", <<"GREGORIAN">>)>>

RECURSIVE IcsEvents(_, _, _)
IcsEvents(df, event_hour, duration_minutes) ==
  IF df = <<>> THEN <<>>
  ELSE VEvent(Head(df), event_hour, duration_minutes) \o IcsEvents(Tail(df), event_hour, duration_minutes)

\* variant: the closing END:VEVENT of each record is missing
VEvent_open(row, event_hour, duration_minutes) ==
  <<Line("BEGIN:VEVENT", <<>>),
    Line("UID", <<row.Date, row.Person>>),
    Line("DTSTART", <<EventStart(row, event_hour)>>),
    Line("DTEND", <<EventEnd(row, event_hour, duration_minutes)>>),
    Line("SUMMARY", <<row.Person, row.AssignedGroup>>),
    Line("DESCRIPTION", <<row.IsWeekend>>)>>

RECURSIVE IcsEvents_open(_, _, _)
IcsEvents_open(df, event_hour, duration_minutes) ==
  IF df = <<>> THEN <<>>
  ELSE VEvent_open(Head(df), event_hour, duration_minutes) \o IcsEvents_open(Tail(df), event_hour, duration_minutes)

build_ics_open(df, event_hour, duration_minutes) ==
  IcsHeader \o IcsEvents_open(df, event_hour, duration_minutes) \o <<Line("END:VCALENDAR", <<>>)>>

\* lines 191-222
build_ics(df, event_hour, duration_minutes) ==
  IcsHeader \o IcsEvents(df, event_hour, duration_minutes) \o <<Line("END:VCALENDAR", <<>>)>>

\* DataFrame.to_csv(index=False): the header row and the records; a table
\* built from no record has no column
to_csv(df) ==
  [header |-> IF df = <<>> THEN <<>>
              ELSE <<"Passage", "Day", "Date", "IsWeekend", "AssignedGroup", "Person">>,
   body |-> df]

\* ---- message boxes ------------------------------------------------------------
NoMessage == [kind |-> "", title |-> "", text |-> ""]

\* QMessageBox.information(self, "No data", ...) of lines 549 and 560
PleasePreview ==
  [kind |-> "information", title |-> "No data", text |-> "Please preview the schedule first."]

\* QMessageBox.critical(self, "Error", str(e))
Critical(text) == [kind |-> "critical", title |-> "Error", text |-> text]

\* ---- what collect_params can return ------------------------------------------
\* group A text empty or one name, group B one name, start Sunday 2026-01-04,
\* either role choice, 48 h, the first label
GuiParams(p) ==
  \E na \in 0..1, offs \in {{}, {0}}, r \in StartRoleChoices,
     b \in {[end_date |-> Some(hours(-1)), num_events |-> None],
            [end_date |-> Some(hours(2)), num_events |-> None],
            [end_date |-> None, num_events |-> Some(1)]} :
    p = [group_a |-> Group("A", na), group_b |-> Group("B", 1),
         start_date |-> 0, end_date |-> b.end_date, num_events |-> b.num_events,
         start_roles |-> r, interval_hours |-> 48,
         skip_dates |-> {hours(o) : o \in offs},
         start_passage_label |-> PASSAGE_CYCLE[1]]

\* ---- state ---------------------------------------------------------------
VARIABLES params, pc, error, skip, current, interval, end, events_left,
          a_handles_weekday, idx_a, idx_b, a_wrapped_since_flip, b_wrapped_since_flip,
          passage_idx, rows, week_people, draws, emitted_at,
          current_df, table_model, message, handler, save_dialog, csv_file, ics_file,
          last_previewed

\* the window: the previewed table, the table view's model, the message box and
\* the save dialog of the last handler, and the two exported files; the history
\* variable last_previewed is the table of the last preview that returned one
gui == <<current_df, table_model, message, handler, save_dialog, csv_file, ics_file,
         last_previewed>>

vars == <<params, pc, error, skip, current, interval, end, events_left,
          a_handles_weekday, idx_a, idx_b, a_wrapped_since_flip, b_wrapped_since_flip,
          passage_idx, rows, week_people, draws, emitted_at, gui>>

locals == <<skip, current, interval, end, events_left,
            a_handles_weekday, idx_a, idx_b, a_wrapped_since_flip, b_wrapped_since_flip,
            passage_idx, rows, week_people, draws, emitted_at>>

\* MainWindow.__init__ (line 355): nothing previewed, nothing shown, nothing written
WindowInit ==
  /\ current_df = None
  /\ table_model = None
  /\ message = NoMessage
  /\ handler = ""
  /\ save_dialog = FALSE
  /\ csv_file = None
  /\ ics_file = None
  /\ last_previewed = None

Init ==
  /\ (ValidationParams(params) \/ RunParams(params) \/ params = FlipTestParams)
  /\ pc = "entry"
  /\ WindowInit
  /\ error = NoError
  /\ skip = {}
  /\ current = 0
  /\ interval = 0
  /\ end = 0
  /\ events_left = 0
  /\ a_handles_weekday = TRUE
  /\ idx_a = 0
  /\ idx_b = 0
  /\ a_wrapped_since_flip = FALSE
  /\ b_wrapped_since_flip = FALSE
  /\ passage_idx = 0
  /\ rows = <<>>
  /\ week_people = <<>>
  /\ draws = <<>>
  /\ emitted_at = <<>>

\* lines 51-60, 76-77: a failing check raises; nothing has been emitted
Reject ==
  /\ pc = "entry"
  /\ ValidationError(params) # NoError
  /\ error' = ValidationError(params)
  /\ pc' = "failed"
  /\ UNCHANGED <<params, locals, gui>>

\* lines 51-116: all checks pass; the locals are initialised
Setup ==
  /\ pc = "entry"
  /\ ValidationError(params) = NoError
  /\ skip' = {normalize(d) : d \in params.skip_dates}
  /\ current' = normalize(params.start_date)
  /\ interval' = params.interval_hours
  /\ a_handles_weekday' = (params.start_roles[1] = "weekday")
  /\ idx_a' = 0
  /\ idx_b' = 0
  /\ a_wrapped_since_flip' = FALSE
  /\ b_wrapped_since_flip' = FALSE
  /\ passage_idx' = IndexOf(PASSAGE_CYCLE, params.start_passage_label)
  /\ rows' = <<>>
  /\ week_people' = <<>>
  /\ end' = IF params.end_date # None THEN normalize(Val(params.end_date)) ELSE 0
  /\ events_left' = IF params.end_date # None THEN 0 ELSE Val(params.num_events)
  /\ pc' = "loop"
  /\ UNCHANGED <<params, error, draws, emitted_at, gui>>

\* variant: a skipped candidate does not advance the instant
SkipStep_stuck ==
  /\ pc = "loop"
  /\ continue_loop(params, current, end, events_left)
  /\ InSkip(current, skip)
  /\ current' = current
  /\ UNCHANGED <<params, pc, error, skip, interval, end, events_left,
                 a_handles_weekday, idx_a, idx_b, a_wrapped_since_flip, b_wrapped_since_flip,
                 passage_idx, rows, week_people, draws, emitted_at, gui>>

\* variant: a skipped candidate advances the instant by one day
SkipStep_nextday ==
  /\ pc = "loop"
  /\ continue_loop(params, current, end, events_left)
  /\ InSkip(current, skip)
  /\ current' = current + hours(1)
  /\ UNCHANGED <<params, pc, error, skip, interval, end, events_left,
                 a_handles_weekday, idx_a, idx_b, a_wrapped_since_flip, b_wrapped_since_flip,
                 passage_idx, rows, week_people, draws, emitted_at, gui>>

\* lines 125-128: a skipped candidate
SkipStep ==
  /\ pc = "loop"
  /\ continue_loop(params, current, end, events_left)
  /\ InSkip(current, skip)
  /\ current' = current + interval
  /\ UNCHANGED <<params, pc, error, skip, interval, end, events_left,
                 a_handles_weekday, idx_a, idx_b, a_wrapped_since_flip, b_wrapped_since_flip,
                 passage_idx, rows, week_people, draws, emitted_at, gui>>

NonLocals ==
  [idx_a |-> idx_a, idx_b |-> idx_b, a_handles_weekday |-> a_handles_weekday,
   a_wrapped_since_flip |-> a_wrapped_since_flip, b_wrapped_since_flip |-> b_wrapped_since_flip]

\* lines 125-183: one emitted record
EmitStep ==
  /\ pc = "loop"
  /\ continue_loop(params, current, end, events_left)
  /\ ~InSkip(current, skip)
  /\ LET wk == week_start_sunday(current)
         wp1 == IF wk \in DOMAIN week_people THEN week_people
                ELSE [k \in DOMAIN week_people \cup {wk} |->
                        IF k = wk THEN EmptyWeek ELSE week_people[k]]
         slot == SlotOf(current)
         fresh == wp1[wk][slot] = None
         c == consume_from(params, SlotGroupFlag(slot, a_handles_weekday), NonLocals)
         s2 == IF fresh THEN c.s ELSE NonLocals
         wp2 == IF fresh THEN [wp1 EXCEPT ![wk][slot] = <<c.person, c.gname>>] ELSE wp1
         pair == wp2[wk][slot]
         passage == PASSAGE_CYCLE[passage_idx + 1]
     IN /\ week_people' = wp2
        /\ idx_a' = s2.idx_a
        /\ idx_b' = s2.idx_b
        /\ a_handles_weekday' = s2.a_handles_weekday
        /\ a_wrapped_since_flip' = s2.a_wrapped_since_flip
        /\ b_wrapped_since_flip' = s2.b_wrapped_since_flip
        /\ draws' = IF fresh
                    THEN Append(draws, [group |-> c.gname, wrapped |-> c.wrapped,
                                        flipped |-> s2.a_handles_weekday # a_handles_weekday,
                                        Date |-> date(current), person |-> c.person])
                    ELSE draws
        /\ emitted_at' = Append(emitted_at, current)
        /\ passage_idx' = NextPassageIdx(passage_idx)
        /\ rows' = Append(rows, [Passage |-> passage,
                                 Day |-> strftimeA(current),
                                 Date |-> date(current),
                                 IsWeekend |-> IF is_weekend(current) THEN "Weekend" ELSE "Weekday",
                                 AssignedGroup |-> pair[2],
                                 Person |-> pair[1]])
  /\ events_left' = IF params.end_date = None THEN events_left - 1 ELSE events_left
  /\ current' = current + interval
  /\ UNCHANGED <<params, pc, error, skip, interval, end, gui>>

\* line 185: the loop condition fails and the table is returned
Return ==
  /\ pc = "loop"
  /\ ~continue_loop(params, current, end, events_left)
  /\ pc' = "done"
  /\ UNCHANGED <<params, error, locals, gui>>

Next == Reject \/ Setup \/ SkipStep \/ EmitStep \/ Return

Spec == Init /\ [][Next]_vars

\* the call runs to completion: the interpreter keeps executing the loop
FairSpec == Spec /\ WF_vars(Next)

\* ---- the window's handlers ------------------------------------------------------
LocalsInit ==
  /\ error = NoError
  /\ skip = {}
  /\ current = 0
  /\ interval = 0
  /\ end = 0
  /\ events_left = 0
  /\ a_handles_weekday = TRUE
  /\ idx_a = 0
  /\ idx_b = 0
  /\ a_wrapped_since_flip = FALSE
  /\ b_wrapped_since_flip = FALSE
  /\ passage_idx = 0
  /\ rows = <<>>
  /\ week_people = <<>>
  /\ draws = <<>>
  /\ emitted_at = <<>>

\* a new call of generate_293t_schedule starts with fresh locals
LocalsReset ==
  /\ error' = NoError
  /\ skip' = {}
  /\ current' = 0
  /\ interval' = 0
  /\ end' = 0
  /\ events_left' = 0
  /\ a_handles_weekday' = TRUE
  /\ idx_a' = 0
  /\ idx_b' = 0
  /\ a_wrapped_since_flip' = FALSE
  /\ b_wrapped_since_flip' = FALSE
  /\ passage_idx' = 0
  /\ rows' = <<>>
  /\ week_people' = <<>>
  /\ draws' = <<>>
  /\ emitted_at' = <<>>

GuiInit ==
  /\ GuiParams(params)
  /\ params.group_a # <<>> /\ params.skip_dates = {} /\ params.num_events # None
  /\ pc = "idle"
  /\ WindowInit
  /\ LocalsInit

\* lines 533-536: the click; collect_params returns and generate_293t_schedule is entered
PreviewClick ==
  /\ pc = "idle"
  /\ GuiParams(params')
  /\ pc' = "entry"
  /\ handler' = "preview"
  /\ message' = NoMessage
  /\ save_dialog' = FALSE
  /\ LocalsReset
  /\ UNCHANGED <<current_df, table_model, csv_file, ics_file, last_previewed>>

\* lines 533-540: collect_params raises on a malformed skip date (line 519)
PreviewCollectFails ==
  /\ pc = "idle"
  /\ handler' = "preview"
  /\ message' = Critical("collect_params")
  /\ save_dialog' = FALSE
  /\ UNCHANGED <<params, pc, error, locals, current_df, table_model, csv_file, ics_file,
                 last_previewed>>

\* lines 537-538: set_table(df) (line 542-545, PandasModel line 574) and current_df = df
PreviewShow ==
  /\ pc = "done"
  /\ handler = "preview"
  /\ table_model' = Some(rows)
  /\ current_df' = Some(rows)
  /\ last_previewed' = Some(rows)
  /\ pc' = "idle"
  /\ UNCHANGED <<params, error, locals, message, handler, save_dialog, csv_file, ics_file>>

\* variant: a failed preview blanks the table and the current schedule
PreviewError_blank ==
  /\ pc = "failed"
  /\ handler = "preview"
  /\ message' = Critical(error.msg)
  /\ table_model' = Some(<<>>)
  /\ current_df' = Some(<<>>)
  /\ pc' = "idle"
  /\ UNCHANGED <<params, error, locals, handler, save_dialog, csv_file, ics_file, last_previewed>>

\* lines 539-540: generate_293t_schedule raised
PreviewError ==
  /\ pc = "failed"
  /\ handler = "preview"
  /\ message' = Critical(error.msg)
  /\ pc' = "idle"
  /\ UNCHANGED <<params, error, locals, current_df, table_model, handler, save_dialog,
                 csv_file, ics_file, last_previewed>>

\* what the save dialog and the write can do: the dialog is cancelled, the
\* file is written, or opening it raises
SaveOutcomes == {"cancelled", "written", "raised"}

\* variant: the export does not test current_df
ExportCsv_unguarded ==
  /\ pc = "idle"
  /\ handler' = "export_csv"
  /\ save_dialog' = TRUE
  /\ \E o \in SaveOutcomes :
       /\ message' = IF o = "raised" \/ (o = "written" /\ current_df = None)
                     THEN Critical("to_csv") ELSE NoMessage
       /\ csv_file' = IF o = "written" /\ current_df # None
                      THEN Some(to_csv(Val(current_df))) ELSE csv_file
  /\ UNCHANGED <<params, pc, error, locals, current_df, table_model, ics_file, last_previewed>>

\* lines 547-556
ExportCsv ==
  /\ pc = "idle"
  /\ handler' = "export_csv"
  /\ IF current_df = None
     THEN /\ message' = PleasePreview
          /\ save_dialog' = FALSE
          /\ csv_file' = csv_file
     ELSE /\ save_dialog' = TRUE
          /\ \E o \in SaveOutcomes :
               /\ message' = IF o = "raised" THEN Critical("to_csv") ELSE NoMessage
               /\ csv_file' = IF o = "written" THEN Some(to_csv(Val(current_df))) ELSE csv_file
  /\ UNCHANGED <<params, pc, error, locals, current_df, table_model, ics_file, last_previewed>>

\* lines 558-569; build_ics is called with its default hour 9 and 60 minutes
ExportIcs ==
  /\ pc = "idle"
  /\ handler' = "export_ics"
  /\ IF current_df = None
     THEN /\ message' = PleasePreview
          /\ save_dialog' = FALSE
          /\ ics_file' = ics_file
     ELSE /\ save_dialog' = TRUE
          /\ \E o \in SaveOutcomes :
               /\ message' = IF o = "raised" THEN Critical("open") ELSE NoMessage
               /\ ics_file' = IF o = "written" THEN Some(build_ics(Val(current_df), 9, 60)) ELSE ics_file
  /\ UNCHANGED <<params, pc, error, locals, current_df, table_model, csv_file, last_previewed>>

GuiNext ==
  \/ PreviewClick \/ PreviewCollectFails
  \/ Reject \/ Setup \/ SkipStep \/ EmitStep \/ Return
  \/ PreviewShow \/ PreviewError
  \/ ExportCsv \/ ExportIcs

\* the window: handlers run one at a time, each to its end
GuiSpec == GuiInit /\ [][GuiNext]_vars

\* ---- properties -----------------------------------------------------------
NumMode == params.end_date = None /\ params.num_events # None

DateMode == params.end_date # None /\ params.num_events = None

SkipDays == {date(d) : d \in params.skip_dates}

\* C1: a finished run bounded by num_events = N >= 1 has emitted exactly N
\* records, whatever candidates were skipped on the way.
C1_NumEventsCount ==
  (pc = "done" /\ NumMode /\ Val(params.num_events) >= 1)
    => Len(rows) = Val(params.num_events)

\* a finished num_events run that passed over at least one skipped candidate
C1_Witness ==
  /\ pc = "done"
  /\ NumMode
  /\ Val(params.num_events) >= 2
  /\ Len(rows) = Val(params.num_events)
  /\ current > normalize(params.start_date) + Val(params.num_events) * interval

\* the candidate instants start + k*interval that are <= end_date and whose
\* calendar date is not a skip date
Candidates ==
  LET start == normalize(params.start_date)
      stop == normalize(Val(params.end_date))
  IN {k \in 0..(hours(MaxSpan + 1) \div params.interval_hours) :
        /\ start + k * params.interval_hours <= stop
        /\ date(start + k * params.interval_hours) \notin SkipDays}

\* C2: a finished date-bounded run has emitted one record per candidate
\* instant <= end_date whose calendar date is not in skip_dates.
C2_DateBoundedCount ==
  (pc = "done" /\ DateMode) => Len(rows) = Cardinality(Candidates)

\* C3: no emitted record carries a calendar date listed in skip_dates.
C3_NoSkippedDateEmitted ==
  \A i \in DOMAIN rows : rows[i].Date \notin SkipDays

\* day 0 is a Sunday: the Sunday-to-Saturday week of a record, and its slot
RowWeek(r) == r.Date \div 7

RowSlot(r) == IF r.Date % 7 = 0 THEN "sunday" ELSE IF r.Date % 7 = 6 THEN "saturday" ELSE "weekday"

\* C4: two records of the same Sunday-to-Saturday week and the same slot
\* have the same Person and the same AssignedGroup.
C4_WeekSlotConsistent ==
  \A i \in DOMAIN rows : \A j \in DOMAIN rows :
    (RowWeek(rows[i]) = RowWeek(rows[j]) /\ RowSlot(rows[i]) = RowSlot(rows[j]))
      => (rows[i].Person = rows[j].Person /\ rows[i].AssignedGroup = rows[j].AssignedGroup)

\* two weekday records on different days of one week, and a record of another
\* week's weekday slot given to somebody else
C4_Witness ==
  \E i \in DOMAIN rows : \E j \in DOMAIN rows : \E k \in DOMAIN rows :
    /\ rows[i].Date < rows[j].Date
    /\ RowWeek(rows[i]) = RowWeek(rows[j])
    /\ RowSlot(rows[i]) = "weekday" /\ RowSlot(rows[j]) = "weekday"
    /\ rows[i].Person = rows[j].Person
    /\ RowWeek(rows[k]) # RowWeek(rows[i])
    /\ RowSlot(rows[k]) = "weekday"
    /\ rows[k].Person # rows[i].Person

\* C5: the k-th record (from 0) carries PASSAGE_CYCLE[(start index + k) mod 14].
C5_PassageSequence ==
  \A k \in DOMAIN rows :
    rows[k].Passage =
      PASSAGE_CYCLE[((IndexOf(PASSAGE_CYCLE, params.start_passage_label) + (k - 1)) % 14) + 1]

\* the label wrapped from the 14th entry to the first in a run that skipped a
\* candidate, reused a week slot and flipped the roles
C5_Witness ==
  /\ \E k \in DOMAIN rows : k > 1 /\ rows[k].Passage = PASSAGE_CYCLE[1] /\ rows[k - 1].Passage = PASSAGE_CYCLE[14]
  /\ current > normalize(params.start_date) + Len(rows) * interval
  /\ Len(draws) < Len(rows)
  /\ \E d \in DOMAIN draws : draws[d].flipped

\* ---- the role flip, read off the log of draws --------------------------------
OtherGroup(g) == IF g = "Group A" THEN "Group B" ELSE "Group A"

\* position of the last flipping draw before draw n (0: none since run start)
LastFlipBefore(n) ==
  LET F == {i \in 1..(n - 1) : draws[i].flipped}
  IN IF F = {} THEN 0 ELSE CHOOSE i \in F : \A j \in F : j <= i

\* group g wrapped in some draw strictly after draw lo, up to draw hi
WrappedBetween(g, lo, hi) ==
  \E i \in (lo + 1)..hi : draws[i].group = g /\ draws[i].wrapped

FlipCount == Cardinality({i \in DOMAIN draws : draws[i].flipped})

\* C6: a draw flips the roles iff it wraps its group's queue and the other
\* group has wrapped since the previous flip (or run start); the role state
\* changes at no other step; a wrap flag stays set until the next flip.
C6_FlipIffBothWrapped ==
  /\ \A n \in DOMAIN draws :
       draws[n].flipped <=>
         (draws[n].wrapped /\ WrappedBetween(OtherGroup(draws[n].group), LastFlipBefore(n), n - 1))
  /\ pc \in {"loop", "done"} =>
       /\ a_handles_weekday = ((params.start_roles[1] = "weekday") = (FlipCount % 2 = 0))
       /\ a_wrapped_since_flip = WrappedBetween("Group A", LastFlipBefore(Len(draws) + 1), Len(draws))
       /\ b_wrapped_since_flip = WrappedBetween("Group B", LastFlipBefore(Len(draws) + 1), Len(draws))

\* one group wrapped twice without a flip in between, its flag was still set
\* when the other group wrapped later, and that draw flipped the roles
C6_Witness ==
  \E i \in DOMAIN draws : \E j \in DOMAIN draws : \E k \in DOMAIN draws :
    /\ i < j /\ j < k
    /\ draws[i].group = draws[j].group
    /\ draws[i].wrapped /\ draws[j].wrapped
    /\ \A m \in i..(k - 1) : ~draws[m].flipped
    /\ draws[k].group # draws[i].group
    /\ draws[k].flipped

\* ---- the entry checks ---------------------------------------------------------
ExactlyOneBound == (params.end_date = None) # (params.num_events = None)

RoleOk(r) == r \in {"weekday", "weekend"}

RolesOk ==
  /\ RoleOk(params.start_roles[1])
  /\ RoleOk(params.start_roles[2])
  /\ params.start_roles[1] # params.start_roles[2]

LabelOk == \E i \in 1..14 : PASSAGE_CYCLE[i] = params.start_passage_label

Returned == pc # "entry"

Failed(m) == pc = "failed" /\ error.msg = m /\ rows = <<>>

\* C7: with both or neither of end_date and num_events the call fails with
\* the AssertionError of line 51 and no record is emitted.
C7_BothOrNeitherRejected ==
  ~ExactlyOneBound =>
    /\ rows = <<>>
    /\ Returned => (pc = "failed" /\ error.kind = "AssertionError")

\* a call with both bounds and otherwise valid inputs has failed
C7_Witness ==
  /\ pc = "failed"
  /\ params.end_date # None /\ params.num_events # None
  /\ params.group_a # <<>> /\ params.group_b # <<>> /\ RolesOk /\ LabelOk
  /\ error.kind = "AssertionError"

\* C8 as stated: an empty group_a fails with "Group A is empty", an empty
\* group_b (group_a non-empty) with "Group B is empty", whatever the other inputs.
C8_AsStated ==
  /\ (Returned /\ params.group_a = <<>>) => Failed("Group A is empty.")
  /\ (Returned /\ params.group_a # <<>> /\ params.group_b = <<>>) => Failed("Group B is empty.")

\* C8: when exactly one of end_date and num_events is given, an empty group_a
\* fails with "Group A is empty" and an empty group_b (group_a non-empty)
\* with "Group B is empty"; no record is emitted.
C8_EmptyGroupRejected ==
  ExactlyOneBound =>
    /\ (params.group_a = <<>> \/ params.group_b = <<>>) => rows = <<>>
    /\ (Returned /\ params.group_a = <<>>) =>
         (Failed("Group A is empty.") /\ error.kind = "ValueError")
    /\ (Returned /\ params.group_a # <<>> /\ params.group_b = <<>>) =>
         (Failed("Group B is empty.") /\ error.kind = "ValueError")

\* both groups empty, one bound given: the Group A message was raised
C8_Witness ==
  /\ ExactlyOneBound
  /\ params.group_a = <<>> /\ params.group_b = <<>>
  /\ Failed("Group A is empty.")

\* C9: a start_roles pair with an element outside {weekday, weekend}, or with
\* two equal elements, makes the call fail with no record; a pair of two
\* distinct valid roles is never rejected by the role checks and, the other
\* inputs being valid, the call does not fail.
C9_StartRolesChecked ==
  /\ ~RolesOk =>
       /\ rows = <<>>
       /\ Returned => (pc = "failed" /\ error # NoError)
  /\ RolesOk =>
       /\ error.msg \notin {"Groups cannot start with the same role.",
                             "start_roles must be ('weekday'|'weekend', 'weekday'|'weekend')"}
       /\ (ExactlyOneBound /\ params.group_a # <<>> /\ params.group_b # <<>> /\ LabelOk)
            => (pc # "failed" /\ error = NoError)

\* two equal valid roles, everything else valid: rejected for the same role
C9_Witness ==
  /\ ExactlyOneBound /\ params.group_a # <<>> /\ params.group_b # <<>> /\ LabelOk
  /\ params.start_roles = <<"weekend", "weekend">>
  /\ Failed("Groups cannot start with the same role.")

\* C10 as stated: a start label outside PASSAGE_CYCLE fails with an error that
\* names the label, whatever the other inputs.
C10_AsStated ==
  (Returned /\ ~LabelOk) =>
    (Failed("Unknown start passage") /\ error.arg = params.start_passage_label)

\* C10: when the earlier checks pass (exactly one bound, both groups
\* non-empty, two distinct valid roles), a start label outside PASSAGE_CYCLE
\* fails with the error naming that label and no record, and each of the 14
\* entries is accepted and positions the label cursor on itself.
C10_StartLabelChecked ==
  (ExactlyOneBound /\ params.group_a # <<>> /\ params.group_b # <<>> /\ RolesOk) =>
    /\ ~LabelOk =>
         /\ rows = <<>>
         /\ Returned => (Failed("Unknown start passage") /\ error.kind = "ValueError"
                          /\ error.arg = params.start_passage_label)
    /\ (LabelOk /\ Returned) =>
         /\ pc # "failed" /\ error = NoError
         /\ rows = <<>> => PASSAGE_CYCLE[passage_idx + 1] = params.start_passage_label

\* an otherwise valid call with the label "P999" has failed naming it
C10_Witness ==
  /\ ExactlyOneBound /\ params.group_a # <<>> /\ params.group_b # <<>> /\ RolesOk
  /\ params.start_passage_label = "P999"
  /\ Failed("Unknown start passage")
  /\ error.arg = "P999"

\* ---- C11 .. C14 ------------------------------------------------------------------
ValidInputs ==
  /\ ExactlyOneBound
  /\ params.group_a # <<>> /\ params.group_b # <<>>
  /\ RolesOk
  /\ LabelOk

\* C11: a validation failure is raised before any record exists, and a run
\* that got past the checks carries no error: either the call has failed with
\* no record, no draw and no week bucket, or its inputs are valid and it never fails.
C11_FailBeforeFirstRecord ==
  /\ ~ValidInputs =>
       /\ rows = <<>> /\ draws = <<>> /\ week_people = <<>>
       /\ Returned => (pc = "failed" /\ error # NoError)
  /\ ValidInputs => (pc # "failed" /\ error = NoError)
  /\ pc = "failed" => (rows = <<>> /\ error # NoError)

\* a call with an empty group_b has failed with no record
C11_Witness ==
  /\ pc = "failed"
  /\ ExactlyOneBound /\ params.group_a # <<>> /\ params.group_b = <<>>
  /\ error.kind = "ValueError"
  /\ rows = <<>>

\* C12: every call that passed the entry checks leaves the loop and returns.
C12_LoopTerminates == (pc = "loop") ~> (pc = "done")

\* a finished num_events run that passed over three consecutive skipped candidates
C12_Witness ==
  /\ pc = "done"
  /\ NumMode
  /\ Val(params.num_events) >= 1
  /\ Len(rows) = Val(params.num_events)
  /\ rows[1].Date >= date(normalize(params.start_date)) + 3
  /\ {date(normalize(params.start_date)) + o : o \in 0..2} \subseteq SkipDays

StartDay == date(params.start_date)

\* the group holding the role of the start day under start_roles, as a name list
StartOwner ==
  LET role == IF StartDay % 7 \in {0, 6} THEN "weekend" ELSE "weekday"
  IN IF params.start_roles[1] = role THEN "Group A" ELSE "Group B"

BoundAdmitsOne ==
  \/ NumMode /\ Val(params.num_events) >= 1
  \/ DateMode /\ date(Val(params.end_date)) >= StartDay

\* C13: when start_date is not skipped and the bound admits a record, the
\* first record is dated start_date, carries the start label and goes to the
\* first member of the group that holds the start day's role.
C13_FirstRecord ==
  (ValidInputs /\ StartDay \notin SkipDays /\ BoundAdmitsOne) =>
    /\ pc = "done" => Len(rows) >= 1
    /\ Len(rows) >= 1 =>
         /\ rows[1].Date = StartDay
         /\ rows[1].Passage = params.start_passage_label
         /\ rows[1].AssignedGroup = StartOwner
         /\ rows[1].Person = (IF StartOwner = "Group A" THEN params.group_a[1] ELSE params.group_b[1])
         /\ rows[1].IsWeekend = (IF StartDay % 7 \in {0, 6} THEN "Weekend" ELSE "Weekday")

\* Sunday 2026-01-04, roles (weekday, weekend), two people per group: Weekend, Group B, B1
C13_Witness ==
  /\ pc = "done"
  /\ params.start_date = 0
  /\ params.start_roles = <<"weekday", "weekend">>
  /\ Len(params.group_a) = 2 /\ Len(params.group_b) = 2
  /\ Len(rows) >= 1
  /\ rows[1] = [Passage |-> params.start_passage_label, Day |-> "Sunday", Date |-> 0,
                 IsWeekend |-> "Weekend", AssignedGroup |-> "Group B", Person |-> <<"B", 1>>]

FirstRowWhere(kind) ==
  CHOOSE i \in DOMAIN rows : rows[i].IsWeekend = kind /\ \A j \in 1..(i - 1) : rows[j].IsWeekend # kind

\* C14: with one person per group every draw wraps, and a draw flips the roles
\* iff the other group has drawn since the previous flip; the finished 10-event
\* test run starts its weekdays with Group A, its weekends with Group B and has
\* a later weekday record of Group B.
C14_SinglePersonFlip ==
  /\ (Len(params.group_a) = 1 /\ Len(params.group_b) = 1) =>
       \A n \in DOMAIN draws :
         /\ draws[n].wrapped
         /\ draws[n].flipped <=>
              \E i \in (LastFlipBefore(n) + 1)..(n - 1) : draws[i].group # draws[n].group
  /\ (params = FlipTestParams /\ pc = "done") =>
       /\ Len(rows) = 10
       /\ rows[FirstRowWhere("Weekday")].AssignedGroup = "Group A"
       /\ rows[FirstRowWhere("Weekend")].AssignedGroup = "Group B"
       /\ \E k \in DOMAIN rows :
            /\ k > FirstRowWhere("Weekday")
            /\ rows[k].IsWeekend = "Weekday"
            /\ rows[k].AssignedGroup = "Group B"

\* the test run has finished and flipped at its second draw
C14_Witness ==
  /\ params = FlipTestParams
  /\ pc = "done"
  /\ Len(draws) >= 2
  /\ ~draws[1].flipped
  /\ draws[2].flipped

\* ---- C15, C16 (the window) ------------------------------------------------------
\* a step that ran export_csv or export_ics from start to end
ExportStep == pc = "idle" /\ pc' = "idle" /\ handler' \in {"export_csv", "export_ics"}

\* C15: an export made while current_df is None shows the "Please preview"
\* notice, opens no save dialog and writes nothing; a file changes only in an
\* export made with a previewed table, so a file exists only after a preview
\* has succeeded; once a preview has succeeded the table model has as many
\* rows as current_df has records.
C15_ExportNeedsPreview ==
  [][/\ (ExportStep /\ current_df = None) =>
          /\ message' = PleasePreview
          /\ ~save_dialog'
          /\ csv_file' = csv_file /\ ics_file' = ics_file
     /\ (csv_file' # csv_file \/ ics_file' # ics_file) =>
          (ExportStep /\ current_df # None /\ save_dialog')
     /\ (csv_file' # None \/ ics_file' # None) => current_df' # None
     /\ current_df' # None =>
          (table_model' # None /\ Len(Val(table_model')) = Len(Val(current_df')))]_vars

\* no preview has succeeded, export_csv was clicked: the notice, no dialog, no file
C15_Witness ==
  /\ pc = "idle"
  /\ handler = "export_csv"
  /\ current_df = None
  /\ message = PleasePreview
  /\ ~save_dialog
  /\ csv_file = None /\ ics_file = None

TagPositions(text, t) == {i \in DOMAIN text : text[i].tag = t}

\* the text wraps n VEVENT blocks, the k-th one about record k of df
IcsWellFormed(text, df) ==
  LET n == Len(df)
      B == TagPositions(text, "BEGIN:VEVENT")
      E == TagPositions(text, "END:VEVENT")
      Opens == {i \in B : Cardinality({j \in B : j < i}) = Cardinality({j \in E : j < i})}
      Nth(k) == CHOOSE i \in B : Cardinality({j \in B : j < i}) = k - 1
      Close(b) == CHOOSE e \in E : e > b /\ \A j \in E : j > b => e <= j
  IN /\ Len(text) >= 2
     /\ TagPositions(text, "BEGIN:VCALENDAR") = {1}
     /\ TagPositions(text, "END:VCALENDAR") = {Len(text)}
     /\ Cardinality(B) = n /\ Cardinality(E) = n
     /\ Opens = B
     /\ \A k \in 1..n :
          /\ \E e \in E : e > Nth(k)
          /\ \A j \in B : j # Nth(k) => ~(j > Nth(k) /\ j < Close(Nth(k)))
          /\ \E u \in (Nth(k) + 1)..(Close(Nth(k)) - 1) :
               text[u].tag = "UID" /\ text[u].val = <<df[k].Date, df[k].Person>>
     /\ n = 0 => text = IcsHeader \o <<Line("END:VCALENDAR", <<>>)>>

\* C16: the calendar text written for a table of n records has exactly n
\* VEVENT blocks, each opened and closed, in record order, between one leading
\* BEGIN:VCALENDAR and one trailing END:VCALENDAR; for n = 0 only the wrapper.
C16_IcsStructure ==
  [][ics_file' # ics_file => IcsWellFormed(Val(ics_file'), Val(current_df))]_vars

\* a calendar file was written for a table of two records on different days
C16_Witness ==
  /\ ics_file # None
  /\ current_df # None
  /\ Len(Val(current_df)) = 2
  /\ Val(current_df)[1].Date # Val(current_df)[2].Date
  /\ Val(ics_file) = build_ics(Val(current_df), 9, 60)
  /\ Cardinality(TagPositions(Val(ics_file), "BEGIN:VEVENT")) = 2

\* ---- C17 .. C20 ------------------------------------------------------------------
\* C17: a loop iteration on a candidate whose calendar date is a skip date
\* moves the candidate instant by one interval and changes nothing else.
C17_SkippedDateFrame ==
  [][(pc = "loop" /\ pc' = "loop" /\ date(current) \in SkipDays) =>
       /\ current' = current + interval
       /\ UNCHANGED <<idx_a, idx_b, a_wrapped_since_flip, b_wrapped_since_flip,
                      a_handles_weekday, passage_idx, week_people, rows, events_left>>]_vars

WeekSlot(r) == <<RowWeek(r), RowSlot(r)>>

\* C18: the number of draws equals the number of distinct (week, slot) pairs
\* among the records; a record in a pair that already has a record changes no
\* cursor, flag, role or stored pair and only advances the label cursor; a
\* record in a new pair makes exactly one draw, on that record's day.
C18_SlotResolvedOnce ==
  [][/\ Len(draws') = Cardinality({WeekSlot(rows'[i]) : i \in DOMAIN rows'})
     /\ Len(rows') > Len(rows) =>
          LET r == rows'[Len(rows')]
          IN IF \E i \in DOMAIN rows : WeekSlot(rows[i]) = WeekSlot(r)
             THEN /\ UNCHANGED <<idx_a, idx_b, a_wrapped_since_flip, b_wrapped_since_flip,
                                 a_handles_weekday, week_people, draws>>
                  /\ passage_idx' = (passage_idx + 1) % 14
                  /\ \A i \in DOMAIN rows : WeekSlot(rows[i]) = WeekSlot(r) =>
                        (rows[i].Person = r.Person /\ rows[i].AssignedGroup = r.AssignedGroup)
             ELSE /\ Len(draws') = Len(draws) + 1
                  /\ draws'[Len(draws')].Date = r.Date]_vars

\* the last record reused a pair resolved by an earlier record, after two draws
C18_Witness ==
  /\ Len(draws) >= 2
  /\ Len(rows) > Len(draws)
  /\ \E i \in 1..(Len(rows) - 1) : WeekSlot(rows[i]) = WeekSlot(rows[Len(rows)])

\* the group owning a slot under a role state
OwnerOf(slot, a_weekday) ==
  IF (slot = "weekday") = a_weekday THEN "Group A" ELSE "Group B"

\* C19: a draw takes the person at the cursor of the group that owns the slot
\* under the role state before the draw, and the record names that group.
C19_DrawnFromRoleOwner ==
  [][Len(draws') > Len(draws) =>
       LET r == rows'[Len(rows')]
           d == draws'[Len(draws')]
           owner == OwnerOf(RowSlot(r), a_handles_weekday)
       IN /\ d.group = owner
          /\ r.AssignedGroup = owner
          /\ r.Person = (IF owner = "Group A" THEN params.group_a[idx_a + 1]
                                              ELSE params.group_b[idx_b + 1])]_vars

\* the last record comes from a draw that flipped the roles: it names the
\* group drawn from, which no longer owns that slot
C19_Witness ==
  /\ Len(draws) >= 1 /\ Len(rows) >= 1
  /\ draws[Len(draws)].flipped
  /\ draws[Len(draws)].Date = rows[Len(rows)].Date
  /\ rows[Len(rows)].AssignedGroup = draws[Len(draws)].group
  /\ OwnerOf(RowSlot(rows[Len(rows)]), a_handles_weekday) # rows[Len(rows)].AssignedGroup

\* C20 as stated: in every week the weekday records' group differs from the
\* group of that week's Sunday record and of its Saturday record.
C20_AsStated ==
  \A i \in DOMAIN rows : \A j \in DOMAIN rows :
    (RowWeek(rows[i]) = RowWeek(rows[j]) /\ RowSlot(rows[i]) = "weekday" /\ RowSlot(rows[j]) # "weekday")
      => rows[i].AssignedGroup # rows[j].AssignedGroup

FlipsBetween(i, j) == Cardinality({m \in i..(j - 1) : draws[m].flipped})

\* C20: in every week the weekday group differs from the Sunday (Saturday)
\* group exactly when an even number of role flips (none, in particular)
\* lies between the resolutions of the two slots; every record carries the
\* group of its slot's resolution.
C20_OppositeUnlessFlipped ==
  /\ \A i \in DOMAIN draws : \A j \in DOMAIN draws :
       (i < j /\ RowWeek(draws[i]) = RowWeek(draws[j])
              /\ (RowSlot(draws[i]) = "weekday") # (RowSlot(draws[j]) = "weekday"))
         => ((draws[i].group # draws[j].group) <=> (FlipsBetween(i, j) % 2 = 0))
  /\ \A k \in DOMAIN rows : \E n \in DOMAIN draws :
       WeekSlot(draws[n]) = WeekSlot(rows[k]) /\ draws[n].group = rows[k].AssignedGroup

\* one week whose weekday and Saturday records share a group after a flip in
\* between, and another week whose weekday and weekend groups differ
C20_Witness ==
  /\ \E i \in DOMAIN rows : \E j \in DOMAIN rows :
       /\ RowWeek(rows[i]) = RowWeek(rows[j])
       /\ RowSlot(rows[i]) = "weekday" /\ RowSlot(rows[j]) = "saturday"
       /\ rows[i].AssignedGroup = rows[j].AssignedGroup
  /\ \E i \in DOMAIN rows : \E j \in DOMAIN rows :
       /\ RowWeek(rows[i]) = RowWeek(rows[j])
       /\ RowSlot(rows[i]) = "weekday" /\ RowSlot(rows[j]) # "weekday"
       /\ rows[i].AssignedGroup # rows[j].AssignedGroup

\* the list of persons of a group name
GroupList(g) == IF g = "Group A" THEN params.group_a ELSE params.group_b

\* the cursor of a group name, before and after a step
CursorOf(g) == IF g = "Group A" THEN idx_a ELSE idx_b

CursorOfNext(g) == IF g = "Group A" THEN idx_a' ELSE idx_b'

InRun == pc \in {"loop", "done"}

\* C21: once the run has started both cursors lie inside their group, and
\* every draw returns the member at the cursor, moves that cursor forward by
\* one modulo the group's length, leaves the other cursor alone and reports a
\* wrap exactly when the cursor comes back to 0.
C21_CursorDiscipline ==
  [][/\ (pc' \in {"loop", "done"}) =>
          /\ idx_a' \in 0..(Len(params.group_a) - 1)
          /\ idx_b' \in 0..(Len(params.group_b) - 1)
     /\ (pc = "loop" /\ Len(draws') = Len(draws)) => (idx_a' = idx_a /\ idx_b' = idx_b)
     /\ (pc = "loop" /\ Len(draws') > Len(draws)) =>
          LET d == draws'[Len(draws')]
              g == d.group
          IN /\ draws' = Append(draws, d)
             /\ d.person = GroupList(g)[CursorOf(g) + 1]
             /\ CursorOfNext(g) = (CursorOf(g) + 1) % Len(GroupList(g))
             /\ CursorOfNext(OtherGroup(g)) = CursorOf(OtherGroup(g))
             /\ d.wrapped <=> (CursorOfNext(g) = 0)]_vars

\* a one-person group drawn twice, wrapping each time, beside a two-person
\* group drawn once without a wrap
C21_Witness ==
  /\ InRun
  /\ Len(params.group_a) = 1 /\ Len(params.group_b) = 2
  /\ Cardinality({n \in DOMAIN draws : draws[n].group = "Group A" /\ draws[n].wrapped}) >= 2
  /\ \A n \in DOMAIN draws : draws[n].group = "Group A" => draws[n].wrapped
  /\ \E n \in DOMAIN draws : draws[n].group = "Group B" /\ ~draws[n].wrapped
  /\ idx_a = 0 /\ idx_b = 1

\* the name of a calendar day, counted from the Sunday that is day 0
NameFromSunday ==
  <<"Sunday", "Monday", "Tuesday", "Wednesday", "Thursday", "Friday", "Saturday">>

RowWellFormed(r) ==
  /\ r.IsWeekend \in {"Weekend", "Weekday"}
  /\ (r.IsWeekend = "Weekend") <=> (r.Date % 7 \in {0, 6})
  /\ r.Day = NameFromSunday[(r.Date % 7) + 1]
  /\ r.AssignedGroup \in {"Group A", "Group B"}
  /\ r.Person \in Range(GroupList(r.AssignedGroup))

\* C22: every emitted record is well formed: IsWeekend is 'Weekend' exactly
\* on a Saturday or Sunday and 'Weekday' otherwise, Day is the weekday name of
\* Date, AssignedGroup is 'Group A' or 'Group B', and Person belongs to the
\* list of the named group.
C22_RecordsWellFormed == \A k \in DOMAIN rows : RowWellFormed(rows[k])

\* a returned table of two-person groups with a Saturday, a Sunday and a
\* Wednesday record and records of both groups
C22_Witness ==
  /\ pc = "done"
  /\ \E k \in DOMAIN rows : rows[k].Date % 7 = 6 /\ rows[k].IsWeekend = "Weekend"
  /\ \E k \in DOMAIN rows : rows[k].Date % 7 = 0 /\ rows[k].IsWeekend = "Weekend"
  /\ \E k \in DOMAIN rows : rows[k].Date % 7 = 3 /\ rows[k].IsWeekend = "Weekday"
  /\ \E k \in DOMAIN rows : rows[k].AssignedGroup = "Group A"
  /\ \E k \in DOMAIN rows : rows[k].AssignedGroup = "Group B"
  /\ Len(params.group_a) = 2 /\ Len(params.group_b) = 2

\* the candidates seen so far: the emitted ones and the one under test
SeenCandidates ==
  Range(emitted_at) \cup (IF pc = "loop" /\ error = NoError THEN {current} ELSE {})

\* the Sunday-to-Saturday week of an instant, counted from day 0 (a Sunday)
SunSatWeek(ts) == (ts \div 24) \div 7

\* C23: the week key of a candidate is the latest Sunday 00:00 on or before
\* the candidate's calendar date: it is a midnight, it is a Sunday, it lies at
\* most 6 days before the candidate's date, and two candidates have the same
\* key exactly when they lie in the same Sunday-to-Saturday week; the keys of
\* the per-week cache are the keys of the emitted candidates.
C23_WeekKeyLatestSunday ==
  /\ \A ts \in SeenCandidates :
       LET wk == week_start_sunday(ts)
       IN /\ wk % 24 = 0
          /\ (wk \div 24) % 7 = 0
          /\ (ts \div 24) - (wk \div 24) \in 0..6
  /\ \A t1 \in SeenCandidates : \A t2 \in SeenCandidates :
       (week_start_sunday(t1) = week_start_sunday(t2)) <=> (SunSatWeek(t1) = SunSatWeek(t2))
  /\ InRun => DOMAIN week_people = {week_start_sunday(ts) : ts \in Range(emitted_at)}

\* a Sunday noon candidate that is under test, after an emitted Sunday
\* candidate of the same week and an emitted Saturday noon candidate of the
\* week before, six days after its key; the cache holds the two weeks
C23_Witness ==
  /\ pc = "loop"
  /\ current % 24 = 12 /\ (current \div 24) % 7 = 0
  /\ week_start_sunday(current) = current - 12
  /\ \E ts \in Range(emitted_at) :
       /\ ts % 24 = 12
       /\ (ts \div 24) - (week_start_sunday(ts) \div 24) = 6
       /\ SunSatWeek(ts) < SunSatWeek(current)
  /\ \E ts \in Range(emitted_at) : SunSatWeek(ts) = SunSatWeek(current)
  /\ Cardinality(DOMAIN week_people) = 2

\* the wrap flag of a group name, before and after a step
WrapFlagOf(g) == IF g = "Group A" THEN a_wrapped_since_flip ELSE b_wrapped_since_flip

WrapFlagOfNext(g) == IF g = "Group A" THEN a_wrapped_since_flip' ELSE b_wrapped_since_flip'

\* C24: before and after every step the two wrap flags are never both true; a
\* draw that wraps while the other group's flag is set flips the roles and
\* clears both flags in that step; a draw that wraps while the other flag is
\* clear only sets its own flag; nothing else changes the flags or the roles.
C24_FlagsNeverBothSet ==
  [][/\ ~(a_wrapped_since_flip /\ b_wrapped_since_flip)
     /\ ~(a_wrapped_since_flip' /\ b_wrapped_since_flip')
     /\ pc = "loop" =>
          IF Len(draws') > Len(draws) /\ draws'[Len(draws')].wrapped
          THEN LET g == draws'[Len(draws')].group
               IN IF WrapFlagOf(OtherGroup(g))
                  THEN /\ a_handles_weekday' = ~a_handles_weekday
                       /\ ~a_wrapped_since_flip' /\ ~b_wrapped_since_flip'
                  ELSE /\ a_handles_weekday' = a_handles_weekday
                       /\ WrapFlagOfNext(g)
                       /\ ~WrapFlagOfNext(OtherGroup(g))
          ELSE /\ a_handles_weekday' = a_handles_weekday
               /\ a_wrapped_since_flip' = a_wrapped_since_flip
               /\ b_wrapped_since_flip' = b_wrapped_since_flip]_vars

\* the second flip of a run has just happened: both flags are clear again
\* and the roles are back to the starting ones
C24_Witness ==
  /\ pc = "loop"
  /\ FlipCount = 2
  /\ draws[Len(draws)].flipped /\ draws[Len(draws)].wrapped
  /\ ~a_wrapped_since_flip /\ ~b_wrapped_since_flip
  /\ \E n \in DOMAIN draws : draws[n].wrapped /\ ~draws[n].flipped

\* record k is the first of its (week, slot) pair: it resolves the slot
ResolvesSlot(k) == \A j \in 1..(k - 1) : WeekSlot(rows[j]) # WeekSlot(rows[k])

\* the number of slots a group resolved before record k
ResolvedBefore(k, g) ==
  Cardinality({j \in 1..(k - 1) : ResolvesSlot(j) /\ rows[j].AssignedGroup = g})

\* the number of resolved slots given to a person
SlotsGiven(m) == Cardinality({k \in DOMAIN rows : ResolvesSlot(k) /\ rows[k].Person = m})

\* C25: within each group the slot resolutions are round-robin over the
\* whole run: the j-th resolution of a group (j from 0) names the member
\* j mod the group's length, in the draw log and in the records alike, so
\* the numbers of resolved slots of two members of one group differ by at
\* most 1.
C25_RoundRobin ==
  /\ \A n \in DOMAIN draws :
       LET g == draws[n].group
           j == Cardinality({m \in 1..(n - 1) : draws[m].group = g})
       IN draws[n].person = GroupList(g)[(j % Len(GroupList(g))) + 1]
  /\ \A k \in DOMAIN rows :
       ResolvesSlot(k) =>
         LET g == rows[k].AssignedGroup
         IN rows[k].Person = GroupList(g)[(ResolvedBefore(k, g) % Len(GroupList(g))) + 1]
  /\ InRun =>
       \A g \in {"Group A", "Group B"} :
         \A m1 \in Range(GroupList(g)) : \A m2 \in Range(GroupList(g)) :
           SlotsGiven(m1) - SlotsGiven(m2) \in {-1, 0, 1}

\* a run over two weeks with a skipped candidate and a role flip in which a
\* two-person group has resolved three slots: two for its first member, one
\* for its second
C25_Witness ==
  /\ InRun
  /\ Len(params.group_a) = 2
  /\ SlotsGiven(params.group_a[1]) = 2 /\ SlotsGiven(params.group_a[2]) = 1
  /\ FlipCount >= 1
  /\ Cardinality({RowWeek(rows[k]) : k \in DOMAIN rows}) = 2
  /\ emitted_at # <<>> /\ emitted_at[1] # normalize(params.start_date)

\* the candidates strictly between two instants that are a multiple of the
\* cadence apart
CandidatesBetween(t1, t2) ==
  {t1 + m * params.interval_hours : m \in 1..(((t2 - t1) \div params.interval_hours) - 1)}

\* C26: the records are emitted in the order of their candidate instants:
\* every record carries the calendar date of its instant, the first instant
\* lies a whole number of cadences after the normalized start, consecutive
\* instants differ by a positive multiple of interval_hours, and every
\* candidate between them falls on a skip date (so the difference is exactly
\* interval_hours when no skipped candidate lies between); the dates never
\* decrease and, for a cadence of at least 24 hours, no date appears twice.
C26_ChronologicalOrder ==
  /\ Len(emitted_at) = Len(rows)
  /\ \A k \in DOMAIN rows : rows[k].Date = emitted_at[k] \div 24
  /\ emitted_at # <<>> =>
       /\ emitted_at[1] >= (params.start_date \div 24) * 24
       /\ (emitted_at[1] - (params.start_date \div 24) * 24) % params.interval_hours = 0
  /\ \A k \in 2..Len(emitted_at) :
       LET diff == emitted_at[k] - emitted_at[k - 1]
       IN /\ diff > 0
          /\ diff % params.interval_hours = 0
          /\ \A c \in CandidatesBetween(emitted_at[k - 1], emitted_at[k]) : (c \div 24) \in SkipDays
          /\ rows[k - 1].Date <= rows[k].Date
  /\ params.interval_hours >= 24 =>
       \A i \in DOMAIN rows : \A j \in DOMAIN rows : i # j => rows[i].Date # rows[j].Date

\* a daily run whose second and third candidates were skipped: the first
\* two records lie three days apart, the next ones one day apart
C26_Witness ==
  /\ pc = "done"
  /\ params.interval_hours = 24
  /\ Len(emitted_at) >= 3
  /\ emitted_at[2] - emitted_at[1] = 72
  /\ emitted_at[3] - emitted_at[2] = 24
  /\ Cardinality(SkipDays) = 2

\* ---- C27 (the window) ---------------------------------------------------------------
\* a step that ends a failed preview: the generator raised, or collect_params did
PreviewFailStep ==
  \/ pc = "failed" /\ pc' = "idle"
  \/ pc = "idle" /\ pc' = "idle" /\ handler' = "preview"

\* C27: a preview that fails leaves current_df and the table model as they
\* were when it was clicked and shows a critical message box; current_df and
\* the table model change only at the end of a preview whose generator
\* returned, and then to the returned table; whatever an export writes is
\* the text of the last table a preview returned.
C27_FailedPreviewKeepsSchedule ==
  [][/\ PreviewFailStep =>
          /\ current_df' = current_df /\ table_model' = table_model
          /\ csv_file' = csv_file /\ ics_file' = ics_file
          /\ message'.kind = "critical"
     /\ pc' # "idle" => (current_df' = current_df /\ table_model' = table_model)
     /\ (current_df' # current_df \/ table_model' # table_model) =>
          /\ pc = "done" /\ error = NoError
          /\ current_df' = Some(rows) /\ table_model' = Some(rows)
     /\ csv_file' # csv_file =>
          (last_previewed # None /\ csv_file' = Some(to_csv(Val(last_previewed))))
     /\ ics_file' # ics_file =>
          (last_previewed # None /\ ics_file' = Some(build_ics(Val(last_previewed), 9, 60)))]_vars

\* a preview returned one record, the next preview failed in the generator,
\* and export_csv then wrote the one record
C27_Witness ==
  /\ pc = "idle"
  /\ handler = "export_csv"
  /\ error # NoError /\ rows = <<>>
  /\ current_df # None /\ Len(Val(current_df)) = 1
  /\ table_model = current_df
  /\ csv_file = Some(to_csv(Val(current_df)))
  /\ message = NoMessage

====
